---- MODULE Spec2Model ----
(***************************************************************************)
(* Verification model of the Firefly repository:                           *)
(*   - the subprocess I/O relay of app.py (run_code, handle_process_io,    *)
(*     check_output, send_input, stop_execution),                          *)
(*   - the upload pipeline of app.py (index, process_file,                 *)
(*     run_main_script) and the command line parser of main.py,            *)
(*   - main.py's code generation mode and generate_solution,               *)
(*   - the execute_code tool functions,                                    *)
(*   - the documentation generator src/main.py.                            *)
(* Each part has its own specification over its own group of variables;    *)
(* the variables of the other parts stay at their idle values.             *)
(***************************************************************************)
EXTENDS Naturals, Integers, Sequences, FiniteSets, TLC

VARIABLES
    \* ---- app.py: subprocess I/O relay ----
    registered,     \* keys of running_processes
    running,        \* running_processes[id]['running']
    outQ,           \* running_processes[id]['output_queue']
    inQ,            \* running_processes[id]['input_queue']
    proc,           \* state of the subprocess: "none", "run", "waitin", "exited"
    pipeOut,        \* bytes written to the subprocess's stdout/stderr pipe, unread
    stdinBuf,       \* bytes written to the subprocess's stdin pipe, unread
    ioPc,           \* position of the read_output thread
    inHand,         \* input_text the thread took from input_queue (0: none)
    rcPending,      \* run_code is in its time.sleep(0.5), response not yet sent
    nextId,         \* next fresh execution id (uuid4)
    nWritten,       \* number of chunks the subprocess has written so far
    nSent,          \* number of inputs accepted by send_input so far
    delivered,      \* chunks returned to the client so far, in response order
    polledDone,     \* a poll of the client began after the thread had finished
    stopped,        \* stop_execution has returned success for this id
    lastResp,       \* the last HTTP response sent
    \* ---- app.py: upload pipeline; main.py ----
    origin,         \* who starts main.py: "app" (a POST to /) or "cli" (a shell)
    upReq,          \* the POST request: process_type, file parts, filename
    upPc,           \* position of the index handler
    paths,          \* the file system: what each path is ("missing", "dir", "file")
    command,        \* the argument list run_main_script hands to Popen
    page,           \* the page index() renders: template, error, HTTP status
    mainPc,         \* position of main.py
    mainArgv,       \* sys.argv[1:] of main.py
    mainArgs,       \* the Namespace parse_args returned
    mainExit,       \* exit code of main.py (-1: not exited)
    treeFiles,      \* the files below the directories given on the command line
    docs_paths,     \* main.py: docs_paths
    egs_paths,      \* main.py: egs_paths
    genCall,        \* the arguments generate_solution was called with
    outFile,        \* content of <output_dir>/generated_code.py
    \* ---- generate_code.py: generate_solution ----
    exLines,        \* lines = raw_output.split('\n')
    exIdx,          \* index of the line the loop is at
    in_code_block,
    current_code_block,
    language,
    extracted_code,
    exResult,       \* the value generate_solution returns
    exPc,           \* position of generate_solution
    \* ---- the execute_python tool ----
    xVariant,       \* the module whose execute_code is called
    xCode,          \* the code string, by what executing it does
    xResult,        \* what the call of execute_code ends with
    xPc,
    \* ---- src/main.py: the documentation generator ----
    dgArgs,         \* --file / --directory / --output
    dgTree,         \* the files of each directory of the project
    dgDocs,         \* the docs.md files on disk
    dgStack,        \* the directories os.walk has yet to yield
    all_doc_files,
    dgIndex,        \* docs_index.md
    dgFormatCalls,  \* the calls of format_docs_file: path and value returned
    dgPc,
    \* ---- src/agent/format_docs.py: format_docs_file ----
    fmtFile,        \* what file_path names on disk
    fmtOrig,        \* the same before the call
    fmtAgent,       \* what the formatting agent does when asked
    original_docs,
    formatted_docs,
    fmtResult,      \* "none" until the call returns, then "True" or "False"
    fmtPc,
    \* ---- src/agent/generate_code.py: CodeGenerationRAG ----
    ragPaths,       \* self.docs_paths and what each path names on disk
    documents,
    markdown_docs,
    python_docs,
    other_docs,
    chunks,
    handed,         \* the documents handed to a splitter, with the splitter
    vectorstore,
    ragPc

relayVars == <<registered, running, outQ, inQ, proc, pipeOut, stdinBuf, ioPc,
               inHand, rcPending, nextId, nWritten, nSent, delivered,
               polledDone, stopped, lastResp>>

pipeVars == <<origin, upReq, upPc, paths, command, page, mainPc, mainArgv, mainArgs,
              mainExit, treeFiles, docs_paths, egs_paths, genCall, outFile>>

extractVars == <<exLines, exIdx, in_code_block, current_code_block, language,
                 extracted_code, exResult, exPc>>

execVars == <<xVariant, xCode, xResult, xPc>>

docgenVars == <<dgArgs, dgTree, dgDocs, dgStack, all_doc_files, dgIndex,
                dgFormatCalls, dgPc>>

formatVars == <<fmtFile, fmtOrig, fmtAgent, original_docs, formatted_docs,
                fmtResult, fmtPc>>

ragVars == <<ragPaths, documents, markdown_docs, python_docs, other_docs, chunks,
             handed, vectorstore, ragPc>>

vars == <<relayVars, pipeVars, extractVars, execVars, docgenVars, formatVars, ragVars>>

\* What the actions of one part leave alone: the variables of the other parts.
nonRelayVars == <<pipeVars, extractVars, execVars, docgenVars, formatVars, ragVars>>
nonPipeVars == <<relayVars, extractVars, execVars, docgenVars, formatVars, ragVars>>
nonExtractVars == <<relayVars, pipeVars, execVars, docgenVars, formatVars, ragVars>>
nonExecVars == <<relayVars, pipeVars, extractVars, docgenVars, formatVars, ragVars>>
nonDocgenVars == <<relayVars, pipeVars, extractVars, execVars, formatVars, ragVars>>
nonRagVars == <<relayVars, pipeVars, extractVars, execVars, docgenVars, formatVars>>
nonFormatVars == <<relayVars, pipeVars, extractVars, execVars, docgenVars, ragVars>>

(***************************************************************************)
(* Bounds of the model.                                                    *)
(***************************************************************************)
MaxOut == 3         \* chunks one subprocess writes
MaxIn == 1          \* inputs a client sends to one execution
MaxLines == 4       \* lines of the agent's response
MaxDocs == 2        \* paths listed in docs_paths

\* The model follows one execution: the entries of running_processes share
\* no state (each has its own process, queues and thread), and the only
\* thing run_code does to the other entries is to leave them alone.
ExecIds == {1}
\* Ids a client may name: the allocated one and 0, an id never allocated.
ReqIds == ExecIds \cup {0}

\* A requested file of run_code: absent, present but not *.py, present *.py.
RunFiles == {"missing", "notes.txt", "main.py"}

\* An HTTP response: the handler, the id it was asked about, the status code,
\* the "error" text, the "output" text and the "running" field (FALSE where
\* the body has none).  afterStop records whether stop_execution had already
\* returned success for the id when the request was handled.
Resp(op, id, status, error, output, run) ==
    [op |-> op, id |-> id, status |-> status, error |-> error, output |-> output,
     running |-> run, afterStop |-> (id \in ExecIds /\ stopped[id])]

NoResp == [op |-> "none", id |-> 0, status |-> 0, error |-> "", output |-> <<>>,
           running |-> FALSE, afterStop |-> FALSE]

RECURSIVE Flatten(_)
Flatten(q) == IF q = <<>> THEN <<>> ELSE Head(q) \o Flatten(Tail(q))

\* line.decode('utf-8', errors='ignore'): the text of the bytes read, chunk by chunk.
Decode(bytes) == [i \in 1..Len(bytes) |-> bytes[i].id]

\* Index of the first chunk of the pipe that ends a line; 0 when there is none.
FirstNewline(p) ==
    IF \E i \in 1..Len(p) : p[i].nl
    THEN CHOOSE i \in 1..Len(p) : p[i].nl /\ \A j \in 1..(i - 1) : ~p[j].nl
    ELSE 0

\* The text of the "Error sending input: ..." line the thread queues; it is
\* no chunk of the subprocess and carries the chunk id 0.
ErrSendingInput == <<0>>

RelayInit ==
    /\ registered = {}
    /\ running = [e \in ExecIds |-> FALSE]
    /\ outQ = [e \in ExecIds |-> <<>>]
    /\ inQ = [e \in ExecIds |-> <<>>]
    /\ proc = [e \in ExecIds |-> "none"]
    /\ pipeOut = [e \in ExecIds |-> <<>>]
    /\ stdinBuf = [e \in ExecIds |-> <<>>]
    /\ ioPc = [e \in ExecIds |-> "none"]
    /\ inHand = [e \in ExecIds |-> 0]
    /\ rcPending = [e \in ExecIds |-> FALSE]
    /\ nextId = 1
    /\ nWritten = [e \in ExecIds |-> 0]
    /\ nSent = [e \in ExecIds |-> 0]
    /\ delivered = [e \in ExecIds |-> <<>>]
    /\ polledDone = [e \in ExecIds |-> FALSE]
    /\ stopped = [e \in ExecIds |-> FALSE]
    /\ lastResp = NoResp

(***************************************************************************)
(* The subprocess: an arbitrary program that writes chunks (with or        *)
(* without a final newline), reads its stdin, and exits.                   *)
(***************************************************************************)
ProcWrite(e, nl) ==
    /\ proc[e] = "run"
    /\ nWritten[e] < MaxOut
    /\ nWritten' = [nWritten EXCEPT ![e] = @ + 1]
    /\ pipeOut' = [pipeOut EXCEPT ![e] = Append(@, [id |-> nWritten[e] + 1, nl |-> nl])]
    /\ UNCHANGED <<registered, running, outQ, inQ, proc, stdinBuf, ioPc, inHand,
                   rcPending, nextId, nSent, delivered, polledDone, stopped, lastResp>>
    /\ UNCHANGED nonRelayVars

ProcAwaitInput(e) ==
    /\ proc[e] = "run"
    /\ proc' = [proc EXCEPT ![e] = "waitin"]
    /\ UNCHANGED <<registered, running, outQ, inQ, pipeOut, stdinBuf, ioPc, inHand,
                   rcPending, nextId, nWritten, nSent, delivered, polledDone,
                   stopped, lastResp>>
    /\ UNCHANGED nonRelayVars

ProcReadInput(e) ==
    /\ proc[e] = "waitin"
    /\ stdinBuf[e] # <<>>
    /\ stdinBuf' = [stdinBuf EXCEPT ![e] = Tail(@)]
    /\ proc' = [proc EXCEPT ![e] = "run"]
    /\ UNCHANGED <<registered, running, outQ, inQ, pipeOut, ioPc, inHand,
                   rcPending, nextId, nWritten, nSent, delivered, polledDone,
                   stopped, lastResp>>
    /\ UNCHANGED nonRelayVars

ProcExit(e) ==
    /\ proc[e] = "run"
    /\ proc' = [proc EXCEPT ![e] = "exited"]
    /\ UNCHANGED <<registered, running, outQ, inQ, pipeOut, stdinBuf, ioPc, inHand,
                   rcPending, nextId, nWritten, nSent, delivered, polledDone,
                   stopped, lastResp>>
    /\ UNCHANGED nonRelayVars

(***************************************************************************)
(* handle_process_io.read_output, one action per step of the thread.       *)
(***************************************************************************)
\* while process.poll() is None:
IoPoll(e) ==
    /\ ioPc[e] = "poll"
    /\ ioPc' = [ioPc EXCEPT ![e] = IF proc[e] = "exited" THEN "remaining" ELSE "readline"]
    /\ UNCHANGED <<registered, running, outQ, inQ, proc, pipeOut, stdinBuf, inHand,
                   rcPending, nextId, nWritten, nSent, delivered, polledDone,
                   stopped, lastResp>>
    /\ UNCHANGED nonRelayVars

\* line = process.stdout.readline(); if line: output_queue.put(line.decode(...))
\* readline blocks until the pipe holds a complete line or is at end of file.
IoReadline(e) ==
    /\ ioPc[e] = "readline"
    /\ LET k == FirstNewline(pipeOut[e]) IN
        /\ k > 0 \/ proc[e] = "exited"
        /\ LET n == IF k > 0 THEN k ELSE Len(pipeOut[e])
               line == SubSeq(pipeOut[e], 1, n)
           IN /\ pipeOut' = [pipeOut EXCEPT ![e] = SubSeq(@, n + 1, Len(@))]
              /\ outQ' = [outQ EXCEPT ![e] =
                            IF line # <<>> THEN Append(@, Decode(line)) ELSE @]
    /\ ioPc' = [ioPc EXCEPT ![e] = "input"]
    /\ UNCHANGED <<registered, running, inQ, proc, stdinBuf, inHand, rcPending,
                   nextId, nWritten, nSent, delivered, polledDone, stopped, lastResp>>
    /\ UNCHANGED nonRelayVars

\* if not input_queue.empty() and process.poll() is None:
\*     input_text = input_queue.get_nowait()
IoTakeInput(e) ==
    /\ ioPc[e] = "input"
    /\ IF inQ[e] # <<>> /\ proc[e] # "exited"
       THEN /\ inHand' = [inHand EXCEPT ![e] = Head(inQ[e])]
            /\ inQ' = [inQ EXCEPT ![e] = Tail(@)]
            /\ ioPc' = [ioPc EXCEPT ![e] = "write"]
       ELSE /\ ioPc' = [ioPc EXCEPT ![e] = "poll"]
            /\ UNCHANGED <<inHand, inQ>>
    /\ UNCHANGED <<registered, running, outQ, proc, pipeOut, stdinBuf, rcPending,
                   nextId, nWritten, nSent, delivered, polledDone, stopped, lastResp>>
    /\ UNCHANGED nonRelayVars

\* process.stdin.write(input_text.encode('utf-8')); process.stdin.flush()
\* except Exception as e: output_queue.put(f"Error sending input: ...")
IoWriteInput(e) ==
    /\ ioPc[e] = "write"
    /\ IF proc[e] # "exited"
       THEN /\ stdinBuf' = [stdinBuf EXCEPT ![e] = Append(@, inHand[e])]
            /\ UNCHANGED outQ
       ELSE /\ outQ' = [outQ EXCEPT ![e] = Append(@, ErrSendingInput)]
            /\ UNCHANGED stdinBuf
    /\ inHand' = [inHand EXCEPT ![e] = 0]
    /\ ioPc' = [ioPc EXCEPT ![e] = "poll"]
    /\ UNCHANGED <<registered, running, inQ, proc, pipeOut, rcPending, nextId,
                   nWritten, nSent, delivered, polledDone, stopped, lastResp>>
    /\ UNCHANGED nonRelayVars

\* Mutant: the thread stops at the end of its loop without reading what the
\* process left in the pipe.
IoReadRemaining_Skipped(e) ==
    /\ ioPc[e] = "remaining"
    /\ ioPc' = [ioPc EXCEPT ![e] = "mark"]
    /\ UNCHANGED <<registered, running, outQ, inQ, proc, pipeOut, stdinBuf, inHand,
                   rcPending, nextId, nWritten, nSent, delivered, polledDone, stopped,
                   lastResp>>
    /\ UNCHANGED nonRelayVars

\* remaining = process.stdout.read(); if remaining: output_queue.put(...)
IoReadRemaining(e) ==
    /\ ioPc[e] = "remaining"
    /\ pipeOut' = [pipeOut EXCEPT ![e] = <<>>]
    /\ outQ' = [outQ EXCEPT ![e] =
                  IF pipeOut[e] # <<>> THEN Append(@, Decode(pipeOut[e])) ELSE @]
    /\ ioPc' = [ioPc EXCEPT ![e] = "mark"]
    /\ UNCHANGED <<registered, running, inQ, proc, stdinBuf, inHand, rcPending,
                   nextId, nWritten, nSent, delivered, polledDone, stopped, lastResp>>
    /\ UNCHANGED nonRelayVars

\* running_processes[execution_id]['running'] = False
IoMarkCompleted(e) ==
    /\ ioPc[e] = "mark"
    /\ running' = [running EXCEPT ![e] = FALSE]
    /\ ioPc' = [ioPc EXCEPT ![e] = "done"]
    /\ UNCHANGED <<registered, outQ, inQ, proc, pipeOut, stdinBuf, inHand, rcPending,
                   nextId, nWritten, nSent, delivered, polledDone, stopped, lastResp>>
    /\ UNCHANGED nonRelayVars

(***************************************************************************)
(* The HTTP handlers of the relay.                                         *)
(***************************************************************************)
\* Mutant: the test of the file name is left out.
RunCode_AnyExistingFile(file) ==
    /\ IF file = "missing"
       THEN /\ lastResp' = Resp("run_code", 0, 404, "File not found", <<>>, FALSE)
            /\ UNCHANGED <<registered, running, proc, ioPc, rcPending, nextId>>
       ELSE /\ nextId \in ExecIds
            /\ registered' = registered \cup {nextId}
            /\ running' = [running EXCEPT ![nextId] = TRUE]
            /\ proc' = [proc EXCEPT ![nextId] = "run"]
            /\ ioPc' = [ioPc EXCEPT ![nextId] = "poll"]
            /\ rcPending' = [rcPending EXCEPT ![nextId] = TRUE]
            /\ nextId' = nextId + 1
            /\ UNCHANGED lastResp
    /\ UNCHANGED <<outQ, inQ, pipeOut, stdinBuf, inHand, nWritten, nSent, delivered,
                   polledDone, stopped>>
    /\ UNCHANGED nonRelayVars

\* run_code up to its time.sleep(0.5): the checks, Popen, the queues, the
\* entry in running_processes, and the start of the I/O thread.
RunCode(file) ==
    /\ IF file = "missing"
       THEN /\ lastResp' = Resp("run_code", 0, 404, "File not found", <<>>, FALSE)
            /\ UNCHANGED <<registered, running, proc, ioPc, rcPending, nextId>>
       ELSE IF file # "main.py"
       THEN /\ lastResp' = Resp("run_code", 0, 400, "Only Python files can be executed",
                                <<>>, FALSE)
            /\ UNCHANGED <<registered, running, proc, ioPc, rcPending, nextId>>
       ELSE /\ nextId \in ExecIds
            /\ registered' = registered \cup {nextId}
            /\ running' = [running EXCEPT ![nextId] = TRUE]
            /\ proc' = [proc EXCEPT ![nextId] = "run"]
            /\ ioPc' = [ioPc EXCEPT ![nextId] = "poll"]
            /\ rcPending' = [rcPending EXCEPT ![nextId] = TRUE]
            /\ nextId' = nextId + 1
            /\ UNCHANGED lastResp
    /\ UNCHANGED <<outQ, inQ, pipeOut, stdinBuf, inHand, nWritten, nSent, delivered,
                   polledDone, stopped>>
    /\ UNCHANGED nonRelayVars

\* run_code after the sleep: while not output_queue.empty(): output += get();
\* return {"execution_id": ..., "output": output}
RunCodeReturn(e) ==
    /\ rcPending[e]
    /\ rcPending' = [rcPending EXCEPT ![e] = FALSE]
    /\ outQ' = [outQ EXCEPT ![e] = <<>>]
    /\ delivered' = [delivered EXCEPT ![e] = @ \o Flatten(outQ[e])]
    /\ lastResp' = Resp("run_code", e, 200, "", Flatten(outQ[e]), FALSE)
    /\ UNCHANGED <<registered, running, inQ, proc, pipeOut, stdinBuf, ioPc, inHand,
                   nextId, nWritten, nSent, polledDone, stopped>>
    /\ UNCHANGED nonRelayVars

\* The client learns an execution id from run_code's response; before that it
\* can only name ids that are not in running_processes.
Known(id) == id \in registered /\ ~rcPending[id]
Unknown(id) == id \notin registered

CheckOutput(id) ==
    /\ Known(id) \/ Unknown(id)
    /\ IF Unknown(id)
       THEN /\ lastResp' = Resp("check_output", id, 404, "Execution not found", <<>>, FALSE)
            /\ UNCHANGED <<outQ, delivered, polledDone>>
       ELSE /\ outQ' = [outQ EXCEPT ![id] = <<>>]
            /\ delivered' = [delivered EXCEPT ![id] = @ \o Flatten(outQ[id])]
            /\ polledDone' = [polledDone EXCEPT ![id] = @ \/ ioPc[id] = "done"]
            /\ lastResp' = Resp("check_output", id, 200, "", Flatten(outQ[id]), running[id])
    /\ UNCHANGED <<registered, running, inQ, proc, pipeOut, stdinBuf, ioPc, inHand,
                   rcPending, nextId, nWritten, nSent, stopped>>
    /\ UNCHANGED nonRelayVars

SendInput(id) ==
    /\ Known(id) \/ Unknown(id)
    /\ IF Unknown(id)
       THEN /\ lastResp' = Resp("send_input", id, 404, "Execution not found", <<>>, FALSE)
            /\ UNCHANGED <<inQ, nSent>>
       ELSE IF ~running[id]
       THEN /\ lastResp' = Resp("send_input", id, 400, "Process is not running", <<>>, FALSE)
            /\ UNCHANGED <<inQ, nSent>>
       ELSE /\ nSent[id] < MaxIn
            /\ nSent' = [nSent EXCEPT ![id] = @ + 1]
            /\ inQ' = [inQ EXCEPT ![id] = Append(@, nSent[id] + 1)]
            /\ lastResp' = Resp("send_input", id, 200, "", <<>>, FALSE)
    /\ UNCHANGED <<registered, running, outQ, proc, pipeOut, stdinBuf, ioPc, inHand,
                   rcPending, nextId, nWritten, delivered, polledDone, stopped>>
    /\ UNCHANGED nonRelayVars

\* Mutant: stop_execution terminates the process but leaves the flag alone.
StopExecution_KeepsFlag(id) ==
    /\ Known(id)
    /\ running[id]
    /\ proc' = [proc EXCEPT ![id] = "exited"]
    /\ stopped' = [stopped EXCEPT ![id] = TRUE]
    /\ lastResp' = Resp("stop_execution", id, 200, "", <<>>, FALSE)
    /\ UNCHANGED <<registered, running, outQ, inQ, pipeOut, stdinBuf, ioPc, inHand,
                   rcPending, nextId, nWritten, nSent, delivered, polledDone>>
    /\ UNCHANGED nonRelayVars

StopExecution(id) ==
    /\ Known(id) \/ Unknown(id)
    /\ IF Unknown(id)
       THEN /\ lastResp' = Resp("stop_execution", id, 404, "Execution not found", <<>>, FALSE)
            /\ UNCHANGED <<running, proc, stopped>>
       ELSE IF ~running[id]
       THEN /\ lastResp' = Resp("stop_execution", id, 400, "Process is not running",
                                <<>>, FALSE)
            /\ UNCHANGED <<running, proc, stopped>>
       ELSE \* process.terminate(): SIGTERM, a no-op on a process already reaped
            /\ proc' = [proc EXCEPT ![id] = "exited"]
            /\ running' = [running EXCEPT ![id] = FALSE]
            /\ stopped' = [stopped EXCEPT ![id] = TRUE]
            /\ lastResp' = Resp("stop_execution", id, 200, "", <<>>, FALSE)
    /\ UNCHANGED <<registered, outQ, inQ, pipeOut, stdinBuf, ioPc, inHand, rcPending,
                   nextId, nWritten, nSent, delivered, polledDone>>
    /\ UNCHANGED nonRelayVars

ProcStep(e) ==
    \/ \E nl \in BOOLEAN : ProcWrite(e, nl)
    \/ ProcAwaitInput(e)
    \/ ProcReadInput(e)
    \/ ProcExit(e)

IoStep(e) ==
    \/ IoPoll(e)
    \/ IoReadline(e)
    \/ IoTakeInput(e)
    \/ IoWriteInput(e)
    \/ IoReadRemaining(e)
    \/ IoMarkCompleted(e)

RelayNext ==
    \/ \E f \in RunFiles : RunCode(f)
    \/ \E e \in ExecIds : RunCodeReturn(e)
    \/ \E id \in ReqIds : CheckOutput(id)
    \/ \E id \in ReqIds : SendInput(id)
    \/ \E id \in ReqIds : StopExecution(id)
    \/ \E e \in ExecIds : ProcStep(e)
    \/ \E e \in ExecIds : IoStep(e)

(***************************************************************************)
(* app.py: the upload pipeline (index, process_file, run_main_script).     *)
(***************************************************************************)
\* A file name is the sequence of its dot-separated components:
\* "a.tar.gz" is <<"a", "tar", "gz">>, "zip" is <<"zip">>, "" is <<"">>.
EmptyName == <<"">>

LastPart(name) == name[Len(name)]

\* str.lower() on the components that occur.
Lower(s) == CASE s = "TGZ" -> "tgz" [] s = "ZIP" -> "zip" [] OTHER -> s

ALLOWED_EXTENSIONS == {"zip", "tar", "gz", "tgz", "tar.gz"}

\* Mutant: the test for a dot in the filename is left out.
allowed_file_NoDotTest(filename) ==
    Lower(LastPart(filename)) \in ALLOWED_EXTENSIONS

\* '.' in filename and filename.rsplit('.', 1)[1].lower() in ALLOWED_EXTENSIONS
allowed_file(filename) ==
    /\ Len(filename) >= 2
    /\ Lower(LastPart(filename)) \in ALLOWED_EXTENSIONS

\* shutil.unpack_archive picks the format from the end of the saved file's
\* name, case-sensitively (.zip, .tar, .tgz, .tar.gz); any other name raises
\* ReadError, and so does content that is no archive of that format.
Unpackable(filename, intact) ==
    /\ intact
    /\ \/ Len(filename) >= 2 /\ LastPart(filename) \in {"zip", "tar", "tgz"}
       \/ Len(filename) >= 3 /\ LastPart(filename) = "gz"
            /\ filename[Len(filename) - 1] = "tar"

\* Python's None where a string is expected.
PyNone == "<None>"

ProcessTypes == {"documentation", "code_generation", "summary"}
Parts == {"code_archive", "documentation_archive"}
UploadNames == {EmptyName, <<"a", "zip">>, <<"a", "tar", "gz">>, <<"a", "TGZ">>,
                <<"a", "gz">>, <<"a", "txt">>, <<"zip">>, <<"a", "tar">>}

\* A POST to /: the process_type field, the file parts present, and the
\* file name and content of the part index() looks at.
Requests == [process_type : ProcessTypes, parts : SUBSET Parts,
             filename : UploadNames, intact : BOOLEAN]
NoReq == [process_type |-> "", parts |-> {}, filename |-> EmptyName, intact |-> FALSE]

\* Paths: the saved archive, the directory it is unpacked into, the output
\* directory of process_file and its zip; D, E, O are directories named on
\* main.py's command line by a user.
ArchivePath == "uploads/ID_archive"
OutputDir == "outputs/ID_output"
OutputZip == "outputs/ID_output.zip"
PathTokens == {ArchivePath, "uploads/ID_code", "uploads/ID_docs", OutputDir, OutputZip,
               "D", "E", "O"}

Page(template, error, status) == [template |-> template, error |-> error, status |-> status]
NoPage == Page("", "", 0)

\* input_type and affix of index()
InputType(pt) == IF pt = "documentation" THEN "code" ELSE "documentation"
ArchivePart(pt) == IF pt = "documentation" THEN "code_archive" ELSE "documentation_archive"
CodeDir(pt) == IF pt = "documentation" THEN "uploads/ID_code" ELSE "uploads/ID_docs"

\* run_main_script: the command for the process type; <<>> when it returns
\* "Error: Invalid process type." without building one.
BuildCommand(process_type, input_dir, output_dir, documentation_dir) ==
    IF process_type = "documentation"
    THEN <<"python", "main.py", "--mode", "documentation", "--input_dir", input_dir,
           "--output_dir", output_dir>>
    ELSE IF process_type = "code_generation"
    THEN <<"python", "main.py", "--mode", "code_generation", "--documentation_dir",
           documentation_dir, "--output_dir", output_dir>>
    ELSE <<>>

\* process_file(process_type, code_dir=None, documentation_dir=None) calls
\* run_main_script(process_type, code_dir, output_dir, documentation_dir);
\* index() calls process_file(process_type, code_dir=code_dir).
ProcessFileCommand(process_type, code_dir, documentation_dir) ==
    BuildCommand(process_type, code_dir, OutputDir, documentation_dir)

IndexCommand(process_type, code_dir) ==
    ProcessFileCommand(process_type, code_dir, PyNone)

\* subprocess.Popen raises TypeError on an argument that is None.
PopenStarts(cmd) == cmd # <<>> /\ \A i \in 1..Len(cmd) : cmd[i] # PyNone

ErrMissingPart(pt) ==
    IF InputType(pt) = "code" THEN "No code archive file part"
    ELSE "No documentation archive file part"
ErrNoFile(pt) ==
    IF InputType(pt) = "code" THEN "No code archive file selected"
    ELSE "No documentation archive file selected"

\* index() for a POST, up to the point where it waits for main.py (or
\* returns without having started it).
IndexPost ==
    /\ origin = "app"
    /\ upPc = "idle"
    /\ LET pt == upReq.process_type
           code_dir == CodeDir(pt)
           cmd == IndexCommand(pt, code_dir)
       IN
       IF ArchivePart(pt) \notin upReq.parts
       THEN /\ page' = Page("index.html", ErrMissingPart(pt), 200)
            /\ upPc' = "done"
            /\ UNCHANGED <<paths, command, mainPc, mainArgv>>
       ELSE IF upReq.filename = EmptyName
       THEN /\ page' = Page("index.html", ErrNoFile(pt), 200)
            /\ upPc' = "done"
            /\ UNCHANGED <<paths, command, mainPc, mainArgv>>
       ELSE IF ~allowed_file(upReq.filename)
       THEN /\ page' = Page("index.html", "Invalid archive file type", 200)
            /\ upPc' = "done"
            /\ UNCHANGED <<paths, command, mainPc, mainArgv>>
       ELSE IF ~Unpackable(upReq.filename, upReq.intact)
       THEN \* unpack_archive raises: the saved archive and the directory stay
            /\ paths' = [paths EXCEPT ![ArchivePath] = "file", ![code_dir] = "dir"]
            /\ page' = Page("error.html", "Internal Server Error", 500)
            /\ upPc' = "done"
            /\ UNCHANGED <<command, mainPc, mainArgv>>
       ELSE IF PopenStarts(cmd)
       THEN /\ paths' = [paths EXCEPT ![code_dir] = "dir", ![OutputDir] = "dir"]
            /\ command' = cmd
            /\ mainArgv' = SubSeq(cmd, 3, Len(cmd))
            /\ mainPc' = "start"
            /\ upPc' = "main"
            /\ UNCHANGED page
       ELSE \* return code 1 without a process; finally: rmtree(code_dir)
            /\ paths' = [paths EXCEPT ![OutputDir] = "dir"]
            /\ command' = cmd
            /\ page' = Page("index.html", "Error running main.py", 200)
            /\ upPc' = "done"
            /\ UNCHANGED <<mainPc, mainArgv>>
    /\ UNCHANGED <<origin, upReq, mainArgs, mainExit, treeFiles, docs_paths, egs_paths,
                   genCall, outFile>>
    /\ UNCHANGED nonPipeVars

\* process_file after process.communicate() returned.
IndexFinish ==
    /\ origin = "app"
    /\ upPc = "main"
    /\ mainPc = "exit"
    /\ IF mainExit = 0
       THEN /\ paths' = [paths EXCEPT ![OutputZip] = "file",
                                      ![CodeDir(upReq.process_type)] = "missing"]
            /\ page' = Page("result.html", "", 200)
       ELSE /\ paths' = [paths EXCEPT ![CodeDir(upReq.process_type)] = "missing"]
            /\ page' = Page("index.html", "Error running main.py", 200)
    /\ upPc' = "done"
    /\ UNCHANGED <<origin, upReq, command, mainPc, mainArgv, mainArgs, mainExit,
                   treeFiles, docs_paths, egs_paths, genCall, outFile>>
    /\ UNCHANGED nonPipeVars

(***************************************************************************)
(* main.py: the argument parser and the two modes.                         *)
(***************************************************************************)
\* The tokens that look like options to argparse (they start with '-').
OptionTokens == {"--mode", "--input_dir", "--output_dir", "--documentation_dir",
                 "--codebase_dir", "--docs_dir", "--examples_dir", "--problem_statement"}

SubCommands == {"docs", "code"}

SubOptions(mode) ==
    IF mode = "docs" THEN {"--codebase_dir", "--output_dir"}
    ELSE {"--docs_dir", "--examples_dir", "--problem_statement", "--output_dir"}

RequiredOptions(mode) ==
    IF mode = "docs" THEN {"--codebase_dir", "--output_dir"}
    ELSE {"--docs_dir", "--problem_statement", "--output_dir"}

ParseError == [status |-> "error", mode |-> "none", opts |-> <<>>]

\* The options of a subcommand: "--name value" pairs; an unknown option or
\* an option without a value is an error.  acc maps each option to its value
\* (None while not given).
RECURSIVE ParsePairs(_, _, _)
ParsePairs(rest, mode, acc) ==
    IF rest = <<>> THEN [status |-> "ok", mode |-> mode, opts |-> acc]
    ELSE IF Len(rest) < 2 \/ rest[1] \notin SubOptions(mode) \/ rest[2] \in OptionTokens
    THEN ParseError
    ELSE ParsePairs(SubSeq(rest, 3, Len(rest)), mode, [acc EXCEPT ![rest[1]] = rest[2]])

\* parser.parse_args(): the first argument selects the subparser; anything
\* else in its place (an option the top-level parser does not know, another
\* word) makes argparse exit with status 2, as does a missing required option.
ParseArgs(argv) ==
    IF argv = <<>> THEN [status |-> "ok", mode |-> "none", opts |-> <<>>]
    ELSE IF argv[1] \notin SubCommands THEN ParseError
    ELSE LET r == ParsePairs(Tail(argv), argv[1], [o \in SubOptions(argv[1]) |-> PyNone])
         IN IF r.status = "ok" /\ \E o \in RequiredOptions(argv[1]) : r.opts[o] = PyNone
            THEN ParseError
            ELSE r

NoArgs == [status |-> "none", mode |-> "none", opts |-> <<>>]

\* args = parser.parse_args(), and the dispatch on args.mode
MainParse ==
    /\ mainPc = "start"
    /\ LET r == ParseArgs(mainArgv) IN
        /\ mainArgs' = r
        /\ IF r.status = "error" THEN mainPc' = "exit" /\ mainExit' = 2
           ELSE IF r.mode = "none" THEN mainPc' = "exit" /\ mainExit' = 1
           ELSE mainPc' = r.mode /\ UNCHANGED mainExit
    /\ UNCHANGED <<origin, upReq, upPc, paths, command, page, mainArgv, treeFiles,
                   docs_paths, egs_paths, genCall, outFile>>
    /\ UNCHANGED nonPipeVars

\* The output directory checks shared by both modes: created when missing,
\* an error when it is not a directory.
OutputDirOk(dir) == paths[dir] # "file"

\* args.mode == "docs"; write_docs_for_directory is imported from the src
\* package and may complete or raise.
MainDocs(completes) ==
    /\ mainPc = "docs"
    /\ LET codebase_dir == mainArgs.opts["--codebase_dir"]
           output_dir == mainArgs.opts["--output_dir"]
       IN IF paths[codebase_dir] # "dir" \/ ~OutputDirOk(output_dir)
          THEN /\ mainExit' = 1
               /\ UNCHANGED paths
          ELSE /\ paths' = [paths EXCEPT ![output_dir] = "dir"]
               /\ mainExit' = IF completes THEN 0 ELSE 1
    /\ mainPc' = "exit"
    /\ UNCHANGED <<origin, upReq, upPc, command, page, mainArgv, mainArgs, treeFiles,
                   docs_paths, egs_paths, genCall, outFile>>
    /\ UNCHANGED nonPipeVars

\* args.mode == "code": the checks of docs_dir and output_dir
MainCodeValidate ==
    /\ mainPc = "code"
    /\ LET docs_dir == mainArgs.opts["--docs_dir"]
           output_dir == mainArgs.opts["--output_dir"]
       IN IF paths[docs_dir] # "dir" \/ ~OutputDirOk(output_dir)
          THEN /\ mainExit' = 1
               /\ mainPc' = "exit"
               /\ UNCHANGED paths
          ELSE /\ paths' = [paths EXCEPT ![output_dir] = "dir"]
               /\ mainPc' = "collect"
               /\ UNCHANGED mainExit
    /\ UNCHANGED <<origin, upReq, upPc, command, page, mainArgv, mainArgs, treeFiles,
                   docs_paths, egs_paths, genCall, outFile>>
    /\ UNCHANGED nonPipeVars

\* file.endswith(".md"), file.endswith(".py")
EndsWith(name, ext) == Len(name) >= 2 /\ LastPart(name) = ext

\* for root, _, files in os.walk(dir): the files below dir, at any depth
Walk(dir) == IF dir \in DOMAIN treeFiles THEN treeFiles[dir] ELSE {}

MdFilesUnder(dir) == {f \in Walk(dir) : EndsWith(f.name, "md")}
PyFilesUnder(dir) == {f \in Walk(dir) : EndsWith(f.name, "py")}

\* Collect all markdown files of docs_dir and all python files of examples_dir
MainCodeCollect ==
    /\ mainPc = "collect"
    /\ LET docs_dir == mainArgs.opts["--docs_dir"]
           examples_dir == mainArgs.opts["--examples_dir"]
       IN /\ docs_paths' = MdFilesUnder(docs_dir)
          /\ egs_paths' = IF examples_dir # PyNone /\ paths[examples_dir] = "dir"
                          THEN PyFilesUnder(examples_dir) ELSE {}
    /\ mainPc' = "generate"
    /\ UNCHANGED <<origin, upReq, upPc, paths, command, page, mainArgv, mainArgs,
                   mainExit, treeFiles, genCall, outFile>>
    /\ UNCHANGED nonPipeVars

\* The attributes a str object has, as far as main.py is concerned.
StrAttributes == {"strip", "split", "lower", "startswith", "endswith"}

NoCall == [called |-> FALSE, problem_statement |-> "", docs |-> {}, egs |-> {}]
GeneratedCode == "generated code"

\* generated_code = generate_solution(problem_statement. docs_paths, egs_paths)
\* and the write of generated_code.py.  The first argument is the attribute
\* docs_paths of the string problem_statement: evaluating it raises
\* AttributeError, which nothing catches.
MainCodeGenerate ==
    /\ mainPc = "generate"
    /\ IF "docs_paths" \notin StrAttributes
       THEN /\ mainExit' = 1
            /\ UNCHANGED <<genCall, outFile>>
       ELSE /\ genCall' = [called |-> TRUE,
                           problem_statement |-> "problem_statement.docs_paths",
                           docs |-> egs_paths, egs |-> {}]
            /\ outFile' = GeneratedCode
            /\ mainExit' = 0
    /\ mainPc' = "exit"
    /\ UNCHANGED <<origin, upReq, upPc, paths, command, page, mainArgv, mainArgs,
                   treeFiles, docs_paths, egs_paths>>
    /\ UNCHANGED nonPipeVars

\* main.py run from a shell.
CliArgvs ==
    { <<>>,
      <<"docs", "--codebase_dir", "D", "--output_dir", "O">>,
      <<"code", "--docs_dir", "D", "--problem_statement", "P", "--output_dir", "O">>,
      <<"code", "--docs_dir", "D", "--examples_dir", "E", "--problem_statement", "P",
        "--output_dir", "O">>,
      <<"code", "--docs_dir", "D", "--output_dir", "O">>,
      <<"--mode", "documentation", "--input_dir", "D", "--output_dir", "O">> }

File(dir, name) == [dir |-> dir, name |-> name]
DocTree == {File(<<>>, <<"a", "md">>), File(<<"sub">>, <<"b", "md">>),
            File(<<>>, <<"c", "py">>), File(<<>>, <<"md">>)}
EgTree == {File(<<>>, <<"e", "py">>), File(<<"sub">>, <<"f", "py">>),
           File(<<>>, <<"g", "md">>)}

PipeIdle ==
    /\ origin = "none"
    /\ upReq = NoReq
    /\ upPc = "idle"
    /\ paths = [p \in PathTokens |-> "missing"]
    /\ command = <<>>
    /\ page = NoPage
    /\ mainPc = "idle"
    /\ mainArgv = <<>>
    /\ mainArgs = NoArgs
    /\ mainExit = -1
    /\ treeFiles = [d \in {"D", "E"} |-> {}]
    /\ docs_paths = {}
    /\ egs_paths = {}
    /\ genCall = NoCall
    /\ outFile = "absent"

PipeInit ==
    /\ command = <<>>
    /\ page = NoPage
    /\ mainArgs = NoArgs
    /\ mainExit = -1
    /\ docs_paths = {}
    /\ egs_paths = {}
    /\ genCall = NoCall
    /\ outFile = "absent"
    /\ upPc = "idle"
    /\ \/ /\ origin = "app"
          /\ upReq \in Requests
          /\ paths = [p \in PathTokens |-> "missing"]
          /\ mainPc = "idle"
          /\ mainArgv = <<>>
          /\ treeFiles = [d \in {"D", "E"} |-> {}]
       \/ /\ origin = "cli"
          /\ upReq = NoReq
          /\ mainPc = "start"
          /\ mainArgv \in CliArgvs
          /\ \E d \in {"dir", "missing"}, e \in {"dir", "missing"},
                o \in {"dir", "missing", "file"} :
                /\ paths = [p \in PathTokens |->
                              CASE p = "D" -> d [] p = "E" -> e [] p = "O" -> o
                                [] OTHER -> "missing"]
                /\ \E df \in SUBSET DocTree, ef \in SUBSET EgTree :
                      /\ d = "missing" => df = {}
                      /\ e = "missing" => ef = {}
                      /\ treeFiles = [t \in {"D", "E"} |-> IF t = "D" THEN df ELSE ef]

PipeNext ==
    \/ IndexPost
    \/ IndexFinish
    \/ MainParse
    \/ \E c \in BOOLEAN : MainDocs(c)
    \/ MainCodeValidate
    \/ MainCodeCollect
    \/ MainCodeGenerate

(***************************************************************************)
(* generate_code.py: generate_solution's extraction of the code blocks.    *)
(***************************************************************************)
\* A line of the agent's response.  fence: the line starts with ```; rest:
\* what follows the ``` on such a line, and the whole line otherwise.
LineRests == {"", " ", "py"}
Lines == [fence : BOOLEAN, rest : LineRests]

\* str.strip() on the texts that occur
Strip(t) == IF t = " " THEN "" ELSE t

\* A line of extracted_code.  hdr: the line is "# Code block - <text>";
\* src: the index of the response line it was copied from, 0 for a line
\* generate_solution wrote itself.
OutLine(hdr, text, src) == [hdr |-> hdr, text |-> text, src |-> src]
BlankLine == OutLine(FALSE, "", 0)
NoCodeMessage == "No code blocks were found in the generated solution."
NoCodeResult == <<OutLine(FALSE, NoCodeMessage, 0)>>

\* if language: extracted_code += f"# Code block - {language}\n"
\* extracted_code += '\n'.join(current_code_block) + '\n'
BlockText(lang, block) ==
    (IF lang # "" THEN <<OutLine(TRUE, lang, 0)>> ELSE <<>>) \o block

\* Mutant: the closing fence does not clear current_code_block.
ExtractLine_BlockKept ==
    /\ exPc = "loop"
    /\ exIdx <= Len(exLines)
    /\ LET line == exLines[exIdx] IN
       IF line.fence /\ ~in_code_block
       THEN /\ in_code_block' = TRUE
            /\ language' = IF line.rest # "" THEN Strip(line.rest) ELSE language
            /\ UNCHANGED <<current_code_block, extracted_code>>
       ELSE IF line.fence /\ in_code_block
       THEN /\ IF current_code_block # <<>>
               THEN /\ extracted_code' = extracted_code
                         \o BlockText(language, current_code_block) \o <<BlankLine>>
                    /\ language' = ""
               ELSE UNCHANGED <<extracted_code, language>>
            /\ in_code_block' = FALSE
            /\ UNCHANGED current_code_block
       ELSE /\ current_code_block' =
                 IF in_code_block
                 THEN Append(current_code_block, OutLine(FALSE, line.rest, exIdx))
                 ELSE current_code_block
            /\ UNCHANGED <<in_code_block, language, extracted_code>>
    /\ exIdx' = exIdx + 1
    /\ UNCHANGED <<exLines, exPc, exResult>>
    /\ UNCHANGED nonExtractVars

\* One iteration of "for line in lines".
ExtractLine ==
    /\ exPc = "loop"
    /\ exIdx <= Len(exLines)
    /\ LET line == exLines[exIdx] IN
       IF line.fence /\ ~in_code_block
       THEN \* the start of a code block
            /\ in_code_block' = TRUE
            /\ language' = IF line.rest # "" THEN Strip(line.rest) ELSE language
            /\ UNCHANGED <<current_code_block, extracted_code>>
       ELSE IF line.fence /\ in_code_block
       THEN \* the end of a code block
            /\ IF current_code_block # <<>>
               THEN /\ extracted_code' = extracted_code
                         \o BlockText(language, current_code_block) \o <<BlankLine>>
                    /\ current_code_block' = <<>>
                    /\ language' = ""
               ELSE UNCHANGED <<extracted_code, current_code_block, language>>
            /\ in_code_block' = FALSE
       ELSE \* a line inside or outside a code block
            /\ current_code_block' =
                 IF in_code_block
                 THEN Append(current_code_block, OutLine(FALSE, line.rest, exIdx))
                 ELSE current_code_block
            /\ UNCHANGED <<in_code_block, language, extracted_code>>
    /\ exIdx' = exIdx + 1
    /\ UNCHANGED <<exLines, exPc, exResult>>
    /\ UNCHANGED nonExtractVars

\* not text.strip()
IsBlankText(text) == \A i \in 1..Len(text) : ~text[i].hdr /\ Strip(text[i].text) = ""

\* After the loop: the unclosed code block, the empty result, the return.
ExtractFinish ==
    /\ exPc = "loop"
    /\ exIdx > Len(exLines)
    /\ LET final == IF current_code_block # <<>>
                    THEN extracted_code \o BlockText(language, current_code_block)
                    ELSE extracted_code
       IN /\ extracted_code' = final
          /\ exResult' = IF IsBlankText(final) THEN NoCodeResult ELSE final
    /\ exPc' = "done"
    /\ UNCHANGED <<exLines, exIdx, in_code_block, current_code_block, language>>
    /\ UNCHANGED nonExtractVars

ExtractIdle ==
    /\ exLines = <<>>
    /\ exIdx = 1
    /\ in_code_block = FALSE
    /\ current_code_block = <<>>
    /\ language = ""
    /\ extracted_code = <<>>
    /\ exResult = <<>>
    /\ exPc = "idle"

\* raw_output.split('\n') has at least one line.
ExtractInit ==
    /\ \E n \in 1..MaxLines : exLines \in [1..n -> Lines]
    /\ exIdx = 1
    /\ in_code_block = FALSE
    /\ current_code_block = <<>>
    /\ language = ""
    /\ extracted_code = <<>>
    /\ exResult = <<>>
    /\ exPc = "loop"

ExtractNext ==
    \/ ExtractLine
    \/ ExtractFinish

(***************************************************************************)
(* The execute_python tool: execute_code of generate_code.py,              *)
(* generate_code_from_context.py and get_code_running.py.                  *)
(***************************************************************************)
ToolVariants == {"generate_code", "generate_code_from_context", "get_code_running"}

\* How the executed code ends: it runs to completion, or raises an exception
\* that derives from Exception (SyntaxError included), or raises one that
\* derives from BaseException only: SystemExit (sys.exit(), exit()) or
\* KeyboardInterrupt.
CodeEnds == {"completes", "Exception", "SystemExit", "KeyboardInterrupt"}

\* The names the code leaves in exec_globals: x (a plain value), bad (a value
\* whose __repr__ raises), f (a function), __name__ (a dunder name).
GlobalNames == {"x", "bad", "f", "__name__"}

Codes == [end : CodeEnds, stdout : {"", " ", "out"}, stderr : {"", "warn"},
          globals : SUBSET GlobalNames]
NoCode == [end |-> "completes", stdout |-> "", stderr |-> "", globals |-> {}]

Returned(text) == [kind |-> "returned", text |-> text, exc |-> ""]
Raised(exc) == [kind |-> "raised", text |-> <<>>, exc |-> exc]
NoResult == [kind |-> "none", text |-> <<>>, exc |-> ""]

\* not var_name.startswith('__') and not callable(var_value)
\*     and not isinstance(var_value, type)
ShownVars(globals) == {v \in globals : v \notin {"__name__", "f"}}

\* The try block of generate_code.py and generate_code_from_context.py.
TryBody(code) ==
    IF code.end # "completes" THEN Raised(code.end)
    ELSE IF code.stdout # "" THEN Returned(<<"Execution successful", ":", code.stdout>>)
    ELSE IF "bad" \in ShownVars(code.globals) THEN Raised("Exception")
    ELSE IF ShownVars(code.globals) # {}
    THEN Returned(<<"Execution successful", ":", "Variables after execution:">>)
    ELSE Returned(<<"Execution successful", ":", "">>)

\* The try block of get_code_running.py: the output is stripped first.
TryBodyRunning(code) ==
    LET out == Strip(code.stdout)
        head == <<"Execution successful">>
                  \o (IF out # "" THEN <<"Output:", out>> ELSE <<>>)
                  \o (IF code.stderr # "" THEN <<"Warnings/Info:", code.stderr>> ELSE <<>>)
    IN IF code.end # "completes" THEN Raised(code.end)
       ELSE IF out # "" THEN Returned(head)
       ELSE IF "bad" \in ShownVars(code.globals) THEN Raised("Exception")
       ELSE IF ShownVars(code.globals) # {}
       THEN Returned(head \o <<"Variables after execution:">>)
       ELSE Returned(head)

\* except Exception as e: return "Execution error: ..."; anything else that
\* the try block raises leaves execute_code.
ExceptException(r, code) ==
    IF r.kind = "raised" /\ r.exc = "Exception"
    THEN Returned(<<"Execution error", ":", "traceback", code.stderr>>)
    ELSE r

execute_code(variant, code) ==
    IF variant = "get_code_running"
    THEN ExceptException(TryBodyRunning(code), code)
    ELSE ExceptException(TryBody(code), code)

ExecuteCode ==
    /\ xPc = "call"
    /\ xResult' = execute_code(xVariant, xCode)
    /\ xPc' = "done"
    /\ UNCHANGED <<xVariant, xCode>>
    /\ UNCHANGED nonExecVars

ExecIdle ==
    /\ xVariant = "generate_code"
    /\ xCode = NoCode
    /\ xResult = NoResult
    /\ xPc = "idle"

ExecInit ==
    /\ xVariant \in ToolVariants
    /\ xCode \in Codes
    /\ xResult = NoResult
    /\ xPc = "call"

ExecNext == ExecuteCode

(***************************************************************************)
(* src/main.py: the documentation generator.                               *)
(***************************************************************************)
supported_lang_exts == {"py", "java", "cs", "rs", "ts", "js", "go", "rb"}

\* The directories of the documented project, as paths relative to it: the
\* project directory, its subdirectories 1 and 2, and 1/1.  Without
\* --output the docs are written into these; with --output into the same
\* relative paths below the output directory, which lies outside the project.
DirTree == {<<>>, <<1>>, <<1, 1>>, <<2>>}
Parent(d) == SubSeq(d, 1, Len(d) - 1)
Children(d) == {c \in DirTree : c # <<>> /\ Parent(c) = d}

\* The file names a directory may hold (dot-separated components): m.py,
\* n.txt, and py, a file whose whole name is "py".
SourceNames == {<<"m", "py">>, <<"n", "txt">>, <<"py">>}

\* A directory on disk: below the project ("src") or below --output ("out").
Dir(base, rel) == [base |-> base, rel |-> rel]
DocDirs == [base : {"src", "out"}, rel : DirTree]
NoneDir == Dir("none", <<>>)

SourceFile(rel, name) == [rel |-> rel, name |-> name]
NoFile == SourceFile(<<>>, <<"">>)

\* The content of a docs.md: whether the file exists, what its first heading
\* names, the source files whose documentation it holds, and whether it has
\* been rewritten by the formatter.
Absent == [exists |-> FALSE, title |-> <<"">>, docs |-> {}, formatted |-> FALSE]
DocsContent(title, docs) == [exists |-> TRUE, title |-> title, docs |-> docs,
                             formatted |-> FALSE]

\* write_docs_for_file(file, dir_path=None, output_path=None, append=False):
\* the docs.md files after the call.  dir_path only reaches the agent's
\* metadata; output_path decides the file written.
write_docs_for_file(docs, file, dir_path, output_path, append) ==
    LET target == IF output_path = NoneDir THEN Dir("src", file.rel) ELSE output_path
    IN [docs EXCEPT ![target] =
          IF append /\ @.exists
          THEN [@ EXCEPT !.docs = @ \cup {file}]
          ELSE DocsContent(file.name, {file})]

\* write_docs_for_file(root_path / filename, str(dir_path), docs_path, append=True)
WriteInDirLoop(docs, file, docs_path) ==
    write_docs_for_file(docs, file, Dir("src", <<>>), docs_path, TRUE)

\* write_docs_for_file(file_path, docs_path): the second positional
\* parameter is dir_path.
WriteInFileMode(docs, file, docs_path) ==
    write_docs_for_file(docs, file, docs_path, NoneDir, FALSE)

\* format_docs_file(file_path): the value returned; agentOk tells whether
\* the formatting agent answers or raises.
FormatReturns(docs, path, agentOk) == docs[path].exists /\ agentOk

\* ... and the docs.md files after the call.
FormatWrites(docs, path, agentOk) ==
    IF FormatReturns(docs, path, agentOk)
    THEN [docs EXCEPT ![path].formatted = TRUE]
    ELSE docs

\* file_ext = filename.split(".")[-1]; file_ext in supported_lang_exts
IsSupportedInLoop(name) == LastPart(name) \in supported_lang_exts

\* Path ordering: by components, a path before its extensions.
RECURSIVE PathLess(_, _)
PathLess(a, b) ==
    IF a = <<>> THEN b # <<>>
    ELSE IF b = <<>> THEN FALSE
    ELSE IF a[1] # b[1] THEN a[1] < b[1]
    ELSE PathLess(Tail(a), Tail(b))

\* sorted(by_directory.keys())
RECURSIVE SortDirs(_)
SortDirs(S) ==
    IF S = {} THEN <<>>
    ELSE LET m == CHOOSE x \in S : \A y \in S \ {x} : PathLess(x, y)
         IN <<m>> \o SortDirs(S \ {m})

\* The keys of by_directory in the order the index lists them: the
\* directories of the doc files that lie below base_dir, sorted.
IndexOrder(doc_files, base) ==
    SortDirs({doc_files[i].rel : i \in {j \in 1..Len(doc_files) : doc_files[j].base = base}})

Heading(rel) == [kind |-> "heading", dir |-> rel,
                 text |-> IF rel = <<>> THEN "Root Directory" ELSE "dir"]
Link(rel) == [kind |-> "link", dir |-> rel, text |-> "docs.md"]

RECURSIVE IndexLines(_, _, _)
IndexLines(order, doc_files, base) ==
    IF order = <<>> THEN <<>>
    ELSE LET d == Head(order)
             mine == SelectSeq(doc_files, LAMBDA f : f.base = base /\ f.rel = d)
         IN <<Heading(d)>> \o [i \in 1..Len(mine) |-> Link(d)]
              \o IndexLines(Tail(order), doc_files, base)

\* create_docs_index(base_dir, doc_files): the lines of docs_index.md after
\* its two introductory lines.
create_docs_index(base, doc_files) ==
    IndexLines(IndexOrder(doc_files, base), doc_files, base)

\* The permutations of a set of at most two directories.
Orders(S) == {s \in UNION {[1..n -> S] : n \in 0..2} :
                Len(s) = Cardinality(S) /\ {s[i] : i \in 1..Len(s)} = S}

\* main(): the arguments, the output directory, and the choice of the mode.
DgStart ==
    /\ dgPc = "start"
    /\ IF dgArgs.mode = "file"
       THEN /\ dgPc' = IF dgArgs.file = NoFile THEN "exit" ELSE "write"
            /\ UNCHANGED dgStack
       ELSE /\ dgPc' = "walk"
            /\ dgStack' = <<<<>>>>
    /\ UNCHANGED <<dgArgs, dgTree, dgDocs, all_doc_files, dgIndex, dgFormatCalls>>
    /\ UNCHANGED nonDocgenVars

DocsBase == IF dgArgs.output THEN "out" ELSE "src"

\* File mode: docs_path and write_docs_for_file(file_path, docs_path)
DgWriteFile ==
    /\ dgPc = "write"
    /\ LET docs_path == IF dgArgs.output THEN Dir("out", <<>>)
                        ELSE Dir("src", dgArgs.file.rel)
       IN dgDocs' = WriteInFileMode(dgDocs, dgArgs.file, docs_path)
    /\ dgPc' = "format"
    /\ UNCHANGED <<dgArgs, dgTree, dgStack, all_doc_files, dgIndex, dgFormatCalls>>
    /\ UNCHANGED nonDocgenVars

\* File mode: format_docs_file(docs_path)
DgFormatFile(agentOk) ==
    /\ dgPc = "format"
    /\ LET docs_path == IF dgArgs.output THEN Dir("out", <<>>)
                        ELSE Dir("src", dgArgs.file.rel)
       IN /\ dgDocs' = FormatWrites(dgDocs, docs_path, agentOk)
          /\ dgFormatCalls' = Append(dgFormatCalls,
                 [path |-> docs_path, returned |-> FormatReturns(dgDocs, docs_path, agentOk)])
    /\ dgPc' = "done"
    /\ UNCHANGED <<dgArgs, dgTree, dgStack, all_doc_files, dgIndex>>
    /\ UNCHANGED nonDocgenVars

\* The docs.md of a walked directory after the inner loop over its files.
RECURSIVE DocsAfterFiles(_, _, _, _)
DocsAfterFiles(docs, rel, names, docs_path) ==
    IF names = {} THEN docs
    ELSE LET n == CHOOSE x \in names : TRUE
         IN DocsAfterFiles(
              IF IsSupportedInLoop(n)
              THEN WriteInDirLoop(docs, SourceFile(rel, n), docs_path)
              ELSE docs,
              rel, names \ {n}, docs_path)

\* Directory mode: one iteration of "for root, _, filenames in os.walk(...)".
\* order: the order in which os.walk will descend into the subdirectories.
DgWalkDir(order, agentOk) ==
    /\ dgPc = "walk"
    /\ dgStack # <<>>
    /\ LET rel == Head(dgStack)
           docs_path == Dir(DocsBase, rel)
           started == [dgDocs EXCEPT ![docs_path] = DocsContent(<<"root">>, {})]
           written == DocsAfterFiles(started, rel, dgTree[rel], docs_path)
           has_docs == \E n \in dgTree[rel] : IsSupportedInLoop(n)
       IN /\ order \in Orders(Children(rel))
          /\ dgStack' = order \o Tail(dgStack)
          /\ IF has_docs
             THEN /\ dgDocs' = FormatWrites(written, docs_path, agentOk)
                  /\ dgFormatCalls' = Append(dgFormatCalls,
                        [path |-> docs_path,
                         returned |-> FormatReturns(written, docs_path, agentOk)])
                  /\ all_doc_files' = Append(all_doc_files, docs_path)
             ELSE /\ dgDocs' = written
                  /\ agentOk
                  /\ UNCHANGED <<dgFormatCalls, all_doc_files>>
    /\ UNCHANGED <<dgArgs, dgTree, dgIndex, dgPc>>
    /\ UNCHANGED nonDocgenVars

\* Directory mode: create_docs_index(index_output, all_doc_files)
DgCreateIndex ==
    /\ dgPc = "walk"
    /\ dgStack = <<>>
    /\ dgIndex' = [exists |-> TRUE, base |-> DocsBase,
                   lines |-> create_docs_index(DocsBase, all_doc_files)]
    /\ dgPc' = "done"
    /\ UNCHANGED <<dgArgs, dgTree, dgDocs, dgStack, all_doc_files, dgFormatCalls>>
    /\ UNCHANGED nonDocgenVars

NoIndex == [exists |-> FALSE, base |-> "", lines |-> <<>>]
NoDgArgs == [mode |-> "none", file |-> NoFile, output |-> FALSE]

DocgenIdle ==
    /\ dgArgs = NoDgArgs
    /\ dgTree = [d \in DirTree |-> {}]
    /\ dgDocs = [d \in DocDirs |-> Absent]
    /\ dgStack = <<>>
    /\ all_doc_files = <<>>
    /\ dgIndex = NoIndex
    /\ dgFormatCalls = <<>>
    /\ dgPc = "idle"

\* --file names a file of the project (or one that does not exist);
\* --directory names the project directory.
DocgenInit ==
    /\ dgTree \in [DirTree -> SUBSET SourceNames]
    /\ \E out \in BOOLEAN :
         \/ dgArgs = [mode |-> "dir", file |-> NoFile, output |-> out]
         \/ \E d \in DirTree : \E n \in dgTree[d] :
               /\ \A e \in DirTree \ {d} : dgTree[e] = {}
               /\ dgArgs = [mode |-> "file", file |-> SourceFile(d, n), output |-> out]
         \/ /\ \A e \in DirTree : dgTree[e] = {}
            /\ dgArgs = [mode |-> "file", file |-> NoFile, output |-> out]
    /\ dgDocs = [d \in DocDirs |-> Absent]
    /\ dgStack = <<>>
    /\ all_doc_files = <<>>
    /\ dgIndex = NoIndex
    /\ dgFormatCalls = <<>>
    /\ dgPc = "start"

DocgenNext ==
    \/ DgStart
    \/ DgWriteFile
    \/ \E ok \in BOOLEAN : DgFormatFile(ok)
    \/ \E ok \in BOOLEAN : \E order \in UNION {Orders(Children(d)) : d \in DirTree} :
          DgWalkDir(order, ok)
    \/ DgCreateIndex

(***************************************************************************)
(* src/agent/format_docs.py: format_docs_file and format_documentation.    *)
(***************************************************************************)
\* What file_path may name: nothing, a directory, or a regular file.
DocTexts == {"", "doc", " doc "}
PathStates == {[kind |-> "absent", content |-> ""], [kind |-> "dir", content |-> ""]}
                 \cup [kind : {"file"}, content : DocTexts]

\* What process_message does: it raises, or it returns a response that
\* holds its text inside <improved_documentation> tags or has no tags.
AgentOutcomes == {[kind |-> "raises", text |-> ""]}
                    \cup [kind : {"tagged", "plain"}, text : DocTexts]

\* str.strip() on the texts of the model.
StripText(t) == IF t = " doc " THEN "doc" ELSE t

\* format_documentation(documentation): the value returned for a response.
format_documentation(response) ==
    IF response.kind = "tagged" THEN StripText(response.text) ELSE response.text

\* if not file_path.exists() or not file_path.is_file(): return False
FmtCheck ==
    /\ fmtPc = "start"
    /\ IF fmtFile.kind # "file"
       THEN fmtResult' = "False" /\ fmtPc' = "done"
       ELSE fmtPc' = "read" /\ UNCHANGED fmtResult
    /\ UNCHANGED <<fmtFile, fmtOrig, fmtAgent, original_docs, formatted_docs>>
    /\ UNCHANGED nonFormatVars

\* Mutant: the file is opened for writing before the agent is asked.
FmtRead_Truncates ==
    /\ fmtPc = "read"
    /\ original_docs' = fmtFile.content
    /\ fmtFile' = [fmtFile EXCEPT !.content = ""]
    /\ fmtPc' = "format"
    /\ UNCHANGED <<fmtOrig, fmtAgent, formatted_docs, fmtResult>>
    /\ UNCHANGED nonFormatVars

\* original_docs = f.read()
FmtRead ==
    /\ fmtPc = "read"
    /\ original_docs' = fmtFile.content
    /\ fmtPc' = "format"
    /\ UNCHANGED <<fmtFile, fmtOrig, fmtAgent, formatted_docs, fmtResult>>
    /\ UNCHANGED nonFormatVars

\* formatted_docs = format_documentation(original_docs); an exception of the
\* agent is caught by "except Exception" and False is returned.
FmtFormat ==
    /\ fmtPc = "format"
    /\ IF fmtAgent.kind = "raises"
       THEN fmtResult' = "False" /\ fmtPc' = "done" /\ UNCHANGED formatted_docs
       ELSE /\ formatted_docs' = format_documentation(fmtAgent)
            /\ fmtPc' = "open"
            /\ UNCHANGED fmtResult
    /\ UNCHANGED <<fmtFile, fmtOrig, fmtAgent, original_docs>>
    /\ UNCHANGED nonFormatVars

\* open(file_path, 'w') truncates the file.
FmtOpen ==
    /\ fmtPc = "open"
    /\ fmtFile' = [fmtFile EXCEPT !.content = ""]
    /\ fmtPc' = "write"
    /\ UNCHANGED <<fmtOrig, fmtAgent, original_docs, formatted_docs, fmtResult>>
    /\ UNCHANGED nonFormatVars

\* f.write(formatted_docs); return True
FmtWrite ==
    /\ fmtPc = "write"
    /\ fmtFile' = [fmtFile EXCEPT !.content = formatted_docs]
    /\ fmtResult' = "True"
    /\ fmtPc' = "done"
    /\ UNCHANGED <<fmtOrig, fmtAgent, original_docs, formatted_docs>>
    /\ UNCHANGED nonFormatVars

FormatIdle ==
    /\ fmtFile = [kind |-> "absent", content |-> ""]
    /\ fmtOrig = fmtFile
    /\ fmtAgent = [kind |-> "raises", text |-> ""]
    /\ original_docs = ""
    /\ formatted_docs = ""
    /\ fmtResult = "none"
    /\ fmtPc = "idle"

FormatInit ==
    /\ fmtFile \in PathStates
    /\ fmtOrig = fmtFile
    /\ fmtAgent \in AgentOutcomes
    /\ original_docs = ""
    /\ formatted_docs = ""
    /\ fmtResult = "none"
    /\ fmtPc = "start"

FormatNext == FmtCheck \/ FmtRead \/ FmtFormat \/ FmtOpen \/ FmtWrite

(***************************************************************************)
(* src/agent/generate_code.py: CodeGenerationRAG.load_documents and        *)
(* setup_vectorstore.                                                      *)
(***************************************************************************)
\* The names of the files docs_paths may list (dot-separated components):
\* a.md, a.MD, b.py, c.txt and notes.
DocNames == {<<"a", "md">>, <<"a", "MD">>, <<"b", "py">>, <<"c", "txt">>, <<"notes">>}

\* A listed path: its name, whether it is a readable file, unreadable or
\* missing, and the number of chunks a splitter cuts its content into (none
\* for an empty file).
DocPaths == [name : DocNames, state : {"file"}, pieces : {0, 2}]
               \cup [name : DocNames, state : {"missing", "unreadable"}, pieces : {0}]

\* path.suffix.lower(), then file_extension[1:] if file_extension else "unknown"
FileType(name) ==
    IF Len(name) < 2 THEN "unknown"
    ELSE IF LastPart(name) = "MD" THEN "md"
    ELSE LastPart(name)

\* load_documents(): one Document per listed path that exists and can be
\* read, in the order listed; src is the position of the path in docs_paths.
RECURSIVE LoadFrom(_, _)
LoadFrom(listed, i) ==
    IF i > Len(listed) THEN <<>>
    ELSE (IF listed[i].state = "file"
          THEN <<[src |-> i, file_type |-> FileType(listed[i].name),
                  pieces |-> listed[i].pieces]>>
          ELSE <<>>) \o LoadFrom(listed, i + 1)

load_documents == LoadFrom(ragPaths, 1)

\* The positions in documents of the documents a test selects.
Positions(Test(_)) ==
    SelectSeq([i \in 1..Len(documents) |-> i], LAMBDA i : Test(documents[i].file_type))

\* splitter.split_documents(docs): the chunks of each document in turn.
RECURSIVE split_documents(_, _)
split_documents(splitter, docs) ==
    IF docs = <<>> THEN <<>>
    ELSE [k \in 1..documents[Head(docs)].pieces |->
             [doc |-> Head(docs), piece |-> k, splitter |-> splitter]]
           \o split_documents(splitter, Tail(docs))

\* The documents a call of split_documents hands to the splitter.
Handed(splitter, docs) == [k \in 1..Len(docs) |-> [doc |-> docs[k], splitter |-> splitter]]

\* documents = self.load_documents(); raise ValueError if there is none
RagLoad ==
    /\ ragPc = "start"
    /\ documents' = load_documents
    /\ ragPc' = IF load_documents = <<>> THEN "raised" ELSE "group"
    /\ UNCHANGED <<ragPaths, markdown_docs, python_docs, other_docs, chunks, handed,
                   vectorstore>>
    /\ UNCHANGED nonRagVars

\* Mutant: the three tests are independent ifs, the last with the else.
RagGroup_NoElif ==
    /\ ragPc = "group"
    /\ markdown_docs' = Positions(LAMBDA t : t = "md")
    /\ python_docs' = Positions(LAMBDA t : t = "py")
    /\ other_docs' = Positions(LAMBDA t : t # "py")
    /\ ragPc' = "split_md"
    /\ UNCHANGED <<ragPaths, documents, chunks, handed, vectorstore>>
    /\ UNCHANGED nonRagVars

\* for doc in documents: if file_type == "md" ... elif "py" ... else ...
RagGroup ==
    /\ ragPc = "group"
    /\ markdown_docs' = Positions(LAMBDA t : t = "md")
    /\ python_docs' = Positions(LAMBDA t : t # "md" /\ t = "py")
    /\ other_docs' = Positions(LAMBDA t : t # "md" /\ t # "py")
    /\ ragPc' = "split_md"
    /\ UNCHANGED <<ragPaths, documents, chunks, handed, vectorstore>>
    /\ UNCHANGED nonRagVars

\* if <list>: chunks.extend(<splitter>.split_documents(<list>))
RagSplit(pc, splitter, docs, next) ==
    /\ ragPc = pc
    /\ IF docs # <<>>
       THEN /\ chunks' = chunks \o split_documents(splitter, docs)
            /\ handed' = handed \o Handed(splitter, docs)
       ELSE UNCHANGED <<chunks, handed>>
    /\ ragPc' = next
    /\ UNCHANGED <<ragPaths, documents, markdown_docs, python_docs, other_docs,
                   vectorstore>>
    /\ UNCHANGED nonRagVars

RagSplitMarkdown == RagSplit("split_md", "markdown", markdown_docs, "split_py")
RagSplitPython == RagSplit("split_py", "python", python_docs, "split_other")
RagSplitOther == RagSplit("split_other", "default", other_docs, "store")

\* self.vectorstore = FAISS.from_documents(documents=chunks, ...); what the
\* library does with an empty list of chunks is not part of this code: it
\* builds an empty store or raises.
RagStore(builds) ==
    /\ ragPc = "store"
    /\ builds \/ chunks = <<>>
    /\ IF builds
       THEN vectorstore' = [built |-> TRUE, chunks |-> chunks] /\ ragPc' = "done"
       ELSE UNCHANGED vectorstore /\ ragPc' = "raised"
    /\ UNCHANGED <<ragPaths, documents, markdown_docs, python_docs, other_docs, chunks,
                   handed>>
    /\ UNCHANGED nonRagVars

NoStore == [built |-> FALSE, chunks |-> <<>>]

RagIdle ==
    /\ ragPaths = <<>>
    /\ documents = <<>>
    /\ markdown_docs = <<>>
    /\ python_docs = <<>>
    /\ other_docs = <<>>
    /\ chunks = <<>>
    /\ handed = <<>>
    /\ vectorstore = NoStore
    /\ ragPc = "idle"

RagInit ==
    /\ ragPaths \in UNION {[1..n -> DocPaths] : n \in 0..MaxDocs}
    /\ documents = <<>>
    /\ markdown_docs = <<>>
    /\ python_docs = <<>>
    /\ other_docs = <<>>
    /\ chunks = <<>>
    /\ handed = <<>>
    /\ vectorstore = NoStore
    /\ ragPc = "start"

RagNext ==
    \/ RagLoad
    \/ RagGroup
    \/ RagSplitMarkdown
    \/ RagSplitPython
    \/ RagSplitOther
    \/ \E builds \in BOOLEAN : RagStore(builds)

(***************************************************************************)
(* Specifications.                                                         *)
(***************************************************************************)
\* The relay of app.py.
Init == RelayInit /\ PipeIdle /\ ExtractIdle /\ ExecIdle /\ DocgenIdle /\ FormatIdle /\ RagIdle
Next == RelayNext
Spec == Init /\ [][Next]_vars

\* The I/O thread and the subprocess are scheduled by the operating system
\* and keep running while they can; the handler of an accepted run_code
\* request returns after its sleep.  Clients are under no obligation.
FairSpec ==
    /\ Spec
    /\ \A e \in ExecIds : WF_vars(IoStep(e))
    /\ \A e \in ExecIds : WF_vars(ProcStep(e))
    /\ \A e \in ExecIds : WF_vars(RunCodeReturn(e))

\* The upload pipeline of app.py and main.py, started by the app or from a shell.
PipelineInit == PipeInit /\ RelayInit /\ ExtractIdle /\ ExecIdle /\ DocgenIdle /\ FormatIdle /\ RagIdle
PipelineNext == PipeNext
PipelineSpec == PipelineInit /\ [][PipelineNext]_vars

\* generate_solution on an arbitrary response of the agent.
ExtractSpecInit == ExtractInit /\ RelayInit /\ PipeIdle /\ ExecIdle /\ DocgenIdle /\ FormatIdle /\ RagIdle
ExtractSpec == ExtractSpecInit /\ [][ExtractNext]_vars

\* execute_code on an arbitrary code string.
ExecSpecInit == ExecInit /\ RelayInit /\ PipeIdle /\ ExtractIdle /\ DocgenIdle /\ FormatIdle /\ RagIdle
ExecSpec == ExecSpecInit /\ [][ExecNext]_vars

\* The documentation generator on an arbitrary project.
DocgenSpecInit == DocgenInit /\ RelayInit /\ PipeIdle /\ ExtractIdle /\ ExecIdle /\ FormatIdle /\ RagIdle
DocgenSpec == DocgenSpecInit /\ [][DocgenNext]_vars

\* format_docs_file on an arbitrary path and agent.
FormatSpecInit == FormatInit /\ RelayInit /\ PipeIdle /\ ExtractIdle /\ ExecIdle /\ DocgenIdle /\ RagIdle
FormatSpec == FormatSpecInit /\ [][FormatNext]_vars

\* setup_vectorstore on an arbitrary list of documentation paths.
RagSpecInit == RagInit /\ RelayInit /\ PipeIdle /\ ExtractIdle /\ ExecIdle /\ DocgenIdle /\ FormatIdle
RagSpec == RagSpecInit /\ [][RagNext]_vars

(***************************************************************************)
(* C1.  Every chunk the subprocess writes to stdout/stderr is relayed to   *)
(* the client exactly once and in the order produced: at every moment the  *)
(* chunks already returned, followed by those waiting on the output queue, *)
(* followed by those still unread in the pipe, are exactly the chunks      *)
(* written so far, in order; and once the client has polled after the I/O  *)
(* thread finished (which it does after the process has exited), all of    *)
(* them have been returned by run_code's and check_output's responses.     *)
(***************************************************************************)
Chunks(texts) == SelectSeq(texts, LAMBDA c : c # 0)
Produced(e) == [i \in 1..nWritten[e] |-> i]

C2_InputEventuallyWritten ==
    \A e \in ExecIds :
        (inQ[e] # <<>> /\ proc[e] # "exited")
            ~> ((inQ[e] = <<>> /\ inHand[e] = 0) \/ proc[e] = "exited")

(***************************************************************************)
(* C3.  stop_execution on an execution whose running flag is True          *)
(* terminates the subprocess, clears the flag and returns success; after   *)
(* that every send_input and stop_execution for the id returns 400         *)
(* 'Process is not running', the flag never becomes True again, and a      *)
(* request for an id that is not in running_processes returns 404          *)
(* 'Execution not found'.                                                  *)
(***************************************************************************)
C3_Responses ==
    /\ (lastResp.op \in {"send_input", "stop_execution"} /\ lastResp.afterStop)
          => (lastResp.status = 400 /\ lastResp.error = "Process is not running")
    /\ (lastResp.op \in {"check_output", "send_input", "stop_execution"}
          /\ lastResp.id \notin registered)
          => (lastResp.status = 404 /\ lastResp.error = "Execution not found")
    /\ \A e \in ExecIds : stopped[e] => (~running[e] /\ proc[e] = "exited")

C3_Step ==
    \A e \in ExecIds :
        /\ (e \in registered /\ ~running[e]) => ~running'[e]
        /\ (e \in registered /\ ~rcPending[e] /\ running[e]
              /\ lastResp' # lastResp /\ lastResp'.op = "stop_execution"
              /\ lastResp'.id = e)
             => (lastResp'.status = 200 /\ ~running'[e] /\ proc'[e] = "exited")

C3_StopIsFinal == []C3_Responses /\ [][C3_Step]_vars

C3_Witness ==
    /\ lastResp.op = "send_input"
    /\ lastResp.afterStop
    /\ lastResp.status = 400

(***************************************************************************)
(* C4.  For a valid code archive uploaded with process_type                *)
(* 'documentation', the command run_main_script builds is accepted by      *)
(* main.py's parser and runs the documentation mode on the unpacked upload *)
(* directory, writing into the request's output directory.                 *)
(***************************************************************************)
ValidUpload(pt) ==
    /\ origin = "app"
    /\ upReq.process_type = pt
    /\ ArchivePart(pt) \in upReq.parts
    /\ allowed_file(upReq.filename)
    /\ Unpackable(upReq.filename, upReq.intact)

C4_DocumentationCommandAccepted ==
    (ValidUpload("documentation") /\ upPc = "done")
        => /\ mainArgs.status = "ok"
           /\ mainArgs.mode = "docs"
           /\ mainArgs.opts["--codebase_dir"] = CodeDir("documentation")
           /\ mainArgs.opts["--output_dir"] = OutputDir

(***************************************************************************)
(* C5.  For a valid documentation archive uploaded with process_type       *)
(* 'code_generation', the directory the upload was unpacked into is the    *)
(* value passed to main.py as the documentation directory, and main.py is  *)
(* started with it.                                                        *)
(***************************************************************************)
C5_DocumentationDirPassed ==
    (ValidUpload("code_generation") /\ upPc = "done")
        => /\ \E i \in 1..(Len(command) - 1) :
                 /\ command[i] = "--documentation_dir"
                 /\ command[i + 1] = CodeDir("code_generation")
           /\ mainPc # "idle"
           /\ mainArgv = SubSeq(command, 3, Len(command))

(***************************************************************************)
(* C6.  In main.py's 'code' mode, once the directories have been           *)
(* validated, generate_solution is called with the problem statement, all  *)
(* .md files below --docs_dir and all .py files below --examples_dir, and  *)
(* the code it returns is written to generated_code.py.                    *)
(***************************************************************************)
C6_CodeModeGenerates ==
    (/\ mainPc = "exit"
     /\ mainArgs.status = "ok"
     /\ mainArgs.mode = "code"
     /\ paths[mainArgs.opts["--docs_dir"]] = "dir"
     /\ paths[mainArgs.opts["--output_dir"]] = "dir")
        => /\ genCall.called
           /\ genCall.problem_statement = mainArgs.opts["--problem_statement"]
           /\ genCall.docs = {f \in treeFiles["D"] : Len(f.name) >= 2 /\ LastPart(f.name) = "md"}
           /\ genCall.egs = IF mainArgs.opts["--examples_dir"] = "E" /\ paths["E"] = "dir"
                            THEN {f \in treeFiles["E"] :
                                    Len(f.name) >= 2 /\ LastPart(f.name) = "py"}
                            ELSE {}
           /\ outFile = GeneratedCode

(***************************************************************************)
(* C7.  generate_solution returns the response with the fences removed.    *)
(* As claimed: apart from the header lines and blank separator lines it    *)
(* inserts, the result is exactly the lines that lie between an opening    *)
(* and a closing fence line, in order, with no fence line and no line from *)
(* outside the blocks.                                                     *)
(* As amended: the lines of a last block that is never closed are part of  *)
(* the result too, and when the extracted text is empty or blank the       *)
(* result is the fixed sentence "No code blocks were found ...".           *)
(***************************************************************************)
FencesBefore(i) == Cardinality({j \in 1..(i - 1) : exLines[j].fence})

\* Line i follows an opening fence that no fence has closed before it.
InBlock(i) == ~exLines[i].fence /\ FencesBefore(i) % 2 = 1
\* ... and a closing fence follows it.
InClosedBlock(i) == InBlock(i) /\ \E j \in (i + 1)..Len(exLines) : exLines[j].fence

Copied(text) == SelectSeq(text, LAMBDA l : l.src > 0)

\* The copied lines of text are exactly the response lines in S, in order,
\* each with its own content; every other line is a header or blank.
ConsistsOf(text, S) ==
    LET c == Copied(text) IN
    /\ {c[k].src : k \in 1..Len(c)} = S
    /\ Len(c) = Cardinality(S)
    /\ \A k \in 1..(Len(c) - 1) : c[k].src < c[k + 1].src
    /\ \A k \in 1..Len(c) : ~c[k].hdr /\ c[k].text = exLines[c[k].src].rest
    /\ \A k \in 1..Len(text) : text[k].src = 0 => (text[k].hdr \/ text[k].text = "")

C7_Original ==
    exPc = "done" => ConsistsOf(exResult, {i \in 1..Len(exLines) : InClosedBlock(i)})

C7_FencesRemoved ==
    exPc = "done" =>
        IF exResult = NoCodeResult
        THEN \A i \in 1..Len(exLines) : InBlock(i) => Strip(exLines[i].rest) = ""
        ELSE ConsistsOf(exResult, {i \in 1..Len(exLines) : InBlock(i)})

\* Two blocks were extracted, the first with a language header, the second
\* never closed.
C7_Witness ==
    /\ exPc = "done"
    /\ exResult # NoCodeResult
    /\ Len(Copied(exResult)) >= 2
    /\ \E k \in 1..Len(exResult) : exResult[k].hdr
    /\ \E i \in 1..Len(exLines) : InBlock(i) /\ ~InClosedBlock(i)

(***************************************************************************)
(* C8.  execute_code returns a string for every code string and lets no    *)
(* exception of the executed code reach its caller: the result starts with *)
(* 'Execution successful' when the code ran to completion and with         *)
(* 'Execution error', followed by the traceback, when the code raised.     *)
(***************************************************************************)
C8_AlwaysReturnsString ==
    xPc = "done" =>
        /\ xResult.kind = "returned"
        /\ xCode.end = "completes" => xResult.text[1] = "Execution successful"
        /\ xCode.end # "completes" =>
              (xResult.text[1] = "Execution error" /\ xResult.text[3] = "traceback")

\* C9: with --file FILE and --output OUT, the documentation generated for
\* FILE is written to OUT/docs.md and that same file is the one that is then
\* formatted; only without --output is the documentation stored next to the
\* source file.
C9_FileDocsInOutputDir ==
    (dgPc = "done" /\ dgArgs.mode = "file") =>
        LET target == IF dgArgs.output THEN Dir("out", <<>>)
                      ELSE Dir("src", dgArgs.file.rel)
        IN /\ dgDocs[target].exists
           /\ dgDocs[target].docs = {dgArgs.file}
           /\ \A d \in DocDirs : dgDocs[d].exists => d = target
           /\ \A i \in 1..Len(dgFormatCalls) : dgFormatCalls[i].path = target

\* The extension of a file name: what follows its last dot, if it has one.
Extension(name) == IF Len(name) >= 2 THEN LastPart(name) ELSE ""

\* The directories of the walked tree that hold a file with a supported
\* extension.
DocumentedDirs == {d \in DirTree : \E n \in dgTree[d] : Extension(n) \in supported_lang_exts}

IndexAt(kind) == {i \in 1..Len(dgIndex.lines) : dgIndex.lines[i].kind = kind}

\* C10: the docs_index.md written in directory mode links the docs.md of
\* exactly the walked directories that hold a file with a supported
\* extension, each once, grouped under one heading per directory, the
\* headings in sorted order of the relative directory path.
C10_IndexLinksDocumentedDirs ==
    (dgPc = "done" /\ dgArgs.mode = "dir") =>
        /\ dgIndex.exists
        /\ {dgIndex.lines[i].dir : i \in IndexAt("link")} = DocumentedDirs
        /\ Cardinality(IndexAt("link")) = Cardinality(DocumentedDirs)
        /\ Cardinality(IndexAt("heading")) = Cardinality(DocumentedDirs)
        /\ \A i \in IndexAt("link") :
              /\ i > 1
              /\ dgIndex.lines[i - 1] = Heading(dgIndex.lines[i].dir)
              /\ dgDocs[Dir(dgIndex.base, dgIndex.lines[i].dir)].exists
        /\ \A i, j \in IndexAt("heading") :
              i < j => PathLess(dgIndex.lines[i].dir, dgIndex.lines[j].dir)

\* C11: format_docs_file returns True only after the file has been
\* overwritten with the formatted documentation; when the path does not
\* exist or is not a regular file, or when the formatting agent raises, it
\* returns False, raises nothing, and leaves the file's content unchanged.
C11_FormatDocsFileContract ==
    /\ fmtResult = "True" =>
          fmtFile = [kind |-> "file", content |-> format_documentation(fmtAgent)]
    /\ fmtPc = "done" =>
          /\ fmtResult \in {"True", "False"}
          /\ (fmtOrig.kind # "file" \/ fmtAgent.kind = "raises") =>
                (fmtResult = "False" /\ fmtFile = fmtOrig)

\* A file has been rewritten with the stripped content of the agent's tags
\* and True returned.
C11_Witness ==
    /\ fmtPc = "done"
    /\ fmtResult = "True"
    /\ fmtAgent = [kind |-> "tagged", text |-> " doc "]
    /\ fmtOrig.content = " doc "
    /\ fmtFile.content = "doc"

\* The upload the claim calls acceptable: the expected part is present, its
\* filename is not empty, and the text after the filename's last dot is, in
\* lower case, zip, tar, gz or tgz.
C12_Acceptable ==
    /\ ArchivePart(upReq.process_type) \in upReq.parts
    /\ upReq.filename # EmptyName
    /\ Len(upReq.filename) >= 2
    /\ Lower(upReq.filename[Len(upReq.filename)]) \in {"zip", "tar", "gz", "tgz"}

\* The error the claim expects for an upload that is not acceptable.
C12_Error ==
    IF ArchivePart(upReq.process_type) \notin upReq.parts
    THEN IF upReq.process_type = "documentation" THEN "No code archive file part"
         ELSE "No documentation archive file part"
    ELSE IF upReq.filename = EmptyName
    THEN IF upReq.process_type = "documentation" THEN "No code archive file selected"
         ELSE "No documentation archive file selected"
    ELSE "Invalid archive file type"

C12_Handled == origin = "app" /\ upPc = "idle" /\ upPc' # "idle"

\* C12: a POST to / saves and unpacks an upload only if the request holds
\* the expected archive part with a non-empty filename whose final
\* extension is, case-insensitively, zip, tar, gz or tgz; in every other
\* case it returns the index page with the matching error (missing part, no
\* file selected, invalid type, in that order), writes nothing under the
\* uploads folder and starts no process.
C12_UploadValidated ==
    [][C12_Handled =>
          /\ (\E p \in PathTokens : paths'[p] # paths[p]) => C12_Acceptable
          /\ mainPc' # mainPc => C12_Acceptable
          /\ ~C12_Acceptable =>
                /\ page' = Page("index.html", C12_Error, 200)
                /\ paths' = paths
                /\ command' = <<>>
                /\ mainPc' = "idle"]_vars

\* A part named "zip", without a dot, has been refused as an invalid type
\* and nothing was written.
C12_Witness ==
    /\ origin = "app"
    /\ upPc = "done"
    /\ ArchivePart(upReq.process_type) \in upReq.parts
    /\ upReq.filename = <<"zip">>
    /\ page = Page("index.html", "Invalid archive file type", 200)
    /\ \A p \in PathTokens : paths[p] = "missing"

\* What the claim expects of the handler for a requested file.
C13_Expected(file) ==
    IF file = "missing"
    THEN /\ lastResp'.status = 404
         /\ lastResp'.error = "File not found"
         /\ UNCHANGED <<registered, running, proc, ioPc>>
    ELSE IF file = "notes.txt"
    THEN /\ lastResp'.status = 400
         /\ lastResp'.error = "Only Python files can be executed"
         /\ UNCHANGED <<registered, running, proc, ioPc>>
    ELSE \E id \in ExecIds :
            /\ id \notin registered
            /\ registered' = registered \cup {id}
            /\ running'[id]
            /\ proc[id] = "none" /\ proc'[id] = "run"
            /\ \A o \in ExecIds \ {id} : running'[o] = running[o] /\ proc'[o] = proc[o]

C14_SplitterFor(file_type) ==
    IF file_type = "md" THEN "markdown"
    ELSE IF file_type = "py" THEN "python"
    ELSE "default"

\* C14: setup_vectorstore chunks by file type: every document returned by
\* load_documents is handed to exactly one splitter, chosen by its file_type
\* metadata ('md' Markdown, 'py' Python, every other value including
\* 'unknown' the recursive character splitter), so that no loaded document
\* is split twice or left out of the vector store.
C14_ChunkedByFileType ==
    ragPc = "done" =>
        \A i \in 1..Len(documents) :
            /\ Cardinality({k \in 1..Len(handed) : handed[k].doc = i}) = 1
            /\ \A k \in 1..Len(handed) :
                  handed[k].doc = i => handed[k].splitter = C14_SplitterFor(documents[i].file_type)
            /\ \A p \in 1..documents[i].pieces :
                  Cardinality({k \in 1..Len(vectorstore.chunks) :
                                  /\ vectorstore.chunks[k].doc = i
                                  /\ vectorstore.chunks[k].piece = p}) = 1
            /\ \A k \in 1..Len(vectorstore.chunks) :
                  vectorstore.chunks[k].doc = i =>
                      vectorstore.chunks[k].splitter = C14_SplitterFor(documents[i].file_type)

\* A store has been built from a Markdown file with an upper-case suffix
\* and a file without a suffix.
C14_Witness ==
    /\ ragPc = "done"
    /\ Len(documents) = 2
    /\ documents[1].file_type = "md" /\ ragPaths[documents[1].src].name = <<"a", "MD">>
    /\ documents[2].file_type = "unknown"
    /\ Len(vectorstore.chunks) = 4

====
